---- MODULE Spec2Model ----
(***************************************************************************)
(* Geo-Analytics API: the error taxonomy, the error-response builder, the  *)
(* four exception handlers of middleware/error_handler.py, and the         *)
(* structured logger of utils/logger.py (JSONFormatter, LoggerAdapter,     *)
(* request_id_var, PerformanceLogger).                                     *)
(*                                                                         *)
(* Python dicts are functions with string domains; str values are          *)
(* strings; an Optional[dict] argument is a sequence of length 0 (None)    *)
(* or 1.  A handler is an `async def` without any await, so once started   *)
(* it runs to its return (or to the exception that leaves it) without      *)
(* another request's code running in between: one action per handler,      *)
(* and the clock has moved on when the next one runs.                      *)
(***************************************************************************)
EXTENDS Integers, Sequences, FiniteSets, TLC

MaxReq == 2
MaxRuns == 2
MaxTime == 1

Req == 1..MaxReq
Time == 0..MaxTime

VARIABLES
    last,         \* <<>> or <<r>>: what the handler that ran last did
    sent,         \* per response returned so far, in order: its error id and, for an
                  \* unclassified failure rendered without traceback, its Shape
    issued,       \* values uuid.uuid4() has returned so far
    stdout,       \* lines the program's latest operation wrote to sys.stdout
    now,          \* the clock datetime.utcnow() / time.time() reads
    DEBUG,        \* the DEBUG environment variable
    importable,   \* whether `from utils.logger import get_logger` succeeds
    loggerLevel,  \* level of the 'geo-analytics-api' logger
    slot,         \* request_id_var, one slot per execution context
    call,         \* <<>> or <<c>>: the log call just made on the logger
    scope,        \* the PerformanceLogger in use
    scopeLog,     \* lines the scope's logger calls wrote, in order
    caught        \* what the caller of the `with` block caught

vars == <<last, sent, issued, stdout, now, DEBUG, importable,
          loggerLevel, slot, call, scope, scopeLog, caught>>

-----------------------------------------------------------------------------
(* Python values *)

None == "<None>"
Obj == "<object>"
EmptyDict == [k \in {} |-> None]

Update(a, b) == [k \in DOMAIN a \cup DOMAIN b |-> IF k \in DOMAIN b THEN b[k] ELSE a[k]]

Truthy(s) == s # None /\ s # ""

DictTruthy(opt) == opt # <<>> /\ DOMAIN opt[1] # {}

HTTP_400_BAD_REQUEST == 400
HTTP_404_NOT_FOUND == 404
HTTP_422_UNPROCESSABLE_ENTITY == 422
HTTP_429_TOO_MANY_REQUESTS == 429
HTTP_500_INTERNAL_SERVER_ERROR == 500

-----------------------------------------------------------------------------
(* Error taxonomy *)

GeoAnalyticsAPIException(cls, message, status_code, error_code, details) ==
    [cls |-> cls,
     message |-> message,
     status_code |-> status_code,
     error_code |-> IF Truthy(error_code) THEN error_code ELSE "INTERNAL_ERROR",
     details |-> IF DictTruthy(details) THEN details[1] ELSE EmptyDict]

DatasetNotFoundException(dataset_id, kwargs) ==
    GeoAnalyticsAPIException("DatasetNotFoundException",
        "Dataset '" \o dataset_id \o "' not found",
        HTTP_404_NOT_FOUND, "DATASET_NOT_FOUND",
        <<Update([dataset_id |-> dataset_id], kwargs)>>)

InvalidDataFormatException(reason, kwargs) ==
    GeoAnalyticsAPIException("InvalidDataFormatException",
        "Invalid data format: " \o reason,
        HTTP_400_BAD_REQUEST, "INVALID_DATA_FORMAT",
        <<Update([reason |-> reason], kwargs)>>)

AnalyticsProcessingException(operation, reason, kwargs) ==
    GeoAnalyticsAPIException("AnalyticsProcessingException",
        "Analytics processing failed: " \o reason,
        HTTP_500_INTERNAL_SERVER_ERROR, "ANALYTICS_PROCESSING_ERROR",
        <<Update([operation |-> operation, reason |-> reason], kwargs)>>)

RateLimitExceededException(retry_after, kwargs) ==
    GeoAnalyticsAPIException("RateLimitExceededException",
        "Rate limit exceeded. Please try again later.",
        HTTP_429_TOO_MANY_REQUESTS, "RATE_LIMIT_EXCEEDED",
        <<Update([retry_after_seconds |-> retry_after], kwargs)>>)

-----------------------------------------------------------------------------
(* Failures a request-processing step can raise *)

ArgStr == {"a", "b"}
RetryAfter == {"60", "30"}
Kwargs == {EmptyDict, [region |-> Obj], [retry_after_seconds |-> "5"]}

\* a raise statement: the arguments passed (named by the field each one fills),
\* the extra keyword arguments, and the exception object constructed from them
Raised(args, kwargs, exc) == [args |-> args, kwargs |-> kwargs, exc |-> exc]

DomainErrors ==
    {Raised([dataset_id |-> d], kw, DatasetNotFoundException(d, kw)) :
         d \in ArgStr, kw \in Kwargs}
    \cup {Raised([reason |-> r], kw, InvalidDataFormatException(r, kw)) :
              r \in ArgStr, kw \in Kwargs}
    \cup {Raised([operation |-> "op", reason |-> r], kw,
                 AnalyticsProcessingException("op", r, kw)) : r \in ArgStr, kw \in Kwargs}
    \cup {Raised([retry_after_seconds |-> ra], kw, RateLimitExceededException(ra, kw)) :
              ra \in RetryAfter, kw \in Kwargs}
    \cup {Raised(EmptyDict, EmptyDict,
                 GeoAnalyticsAPIException("GeoAnalyticsAPIException", "base", 503, ec, dt)) :
              ec \in {None, "CUSTOM"}, dt \in {<<>>, <<[k |-> "5"]>>}}

ValidationErrors ==
    {Raised(EmptyDict, EmptyDict, [cls |-> "RequestValidationError", errors |-> es]) :
         es \in {<<>>, <<"body.x: field required">>,
                 <<"body.x: field required", "query.n: not an integer">>}}

HTTPExceptions ==
    {Raised(EmptyDict, EmptyDict, e) :
         e \in {[cls |-> "HTTPException", status_code |-> 404, detail |-> "Not Found"],
                [cls |-> "HTTPException", status_code |-> 405,
                 detail |-> "Method Not Allowed"]}}

\* str_raises: the exception's __str__ itself raises
OtherExceptions ==
    {Raised(EmptyDict, EmptyDict, [cls |-> c, text |-> t, str_raises |-> sr]) :
         c \in {"ValueError", "KeyError"}, t \in {"t1", "t2"}, sr \in BOOLEAN}

Failures == DomainErrors \cup ValidationErrors \cup HTTPExceptions \cup OtherExceptions

DomainClasses ==
    {"GeoAnalyticsAPIException", "DatasetNotFoundException", "InvalidDataFormatException",
     "AnalyticsProcessingException", "RateLimitExceededException"}

\* setup_error_handlers: the handler registered for the exception's class
Dispatch(exc) ==
    IF exc.cls \in DomainClasses THEN "custom_exception_handler"
    ELSE IF exc.cls = "RequestValidationError" THEN "validation_exception_handler"
    ELSE IF exc.cls = "HTTPException" THEN "http_exception_handler"
    ELSE "general_exception_handler"

-----------------------------------------------------------------------------
(* Structured logger *)

LevelNames == {"DEBUG", "INFO", "WARNING", "ERROR", "CRITICAL"}

LevelNo(levelname) ==
    CASE levelname = "DEBUG" -> 10
      [] levelname = "INFO" -> 20
      [] levelname = "WARNING" -> 30
      [] levelname = "ERROR" -> 40
      [] levelname = "CRITICAL" -> 50

DictSerialisable(d) == \A k \in DOMAIN d : d[k] # Obj

\* json.dumps(log_data) succeeds
JsonSerialisable(d) ==
    \A k \in DOMAIN d :
        IF k \in {"details", "exception"} THEN DictSerialisable(d[k])
        ELSE IF k \in {"line", "duration_ms", "success"} THEN TRUE
        ELSE d[k] # Obj

isoformat(t) == <<t, "Z">>

\* one module-level value shared by every context: what any context set is read by all
request_id_shared(ctx) ==
    IF \E q \in Req : slot[q] # None
    THEN slot[CHOOSE q \in Req : slot[q] # None] ELSE None

\* request_id_var.get() in the calling context
request_id_var_get(ctx) == slot[ctx]

\* `if request_id is not None:`
request_id_is_not_None(request_id) == request_id # None

\* `if request_id:`
request_id_available(request_id) == Truthy(request_id)

\* JSONFormatter.format up to json.dumps: the log_data it builds
log_data(ctx, record) ==
    LET base == [timestamp |-> isoformat(now),
                 level |-> record.levelname,
                 logger |-> record.name,
                 message |-> record.msg,
                 module |-> record.module,
                 function |-> record.funcName,
                 line |-> record.lineno]
        request_id == request_id_var_get(ctx)
        withId == IF request_id_available(request_id)
                  THEN Update(base, [request_id |-> request_id]) ELSE base
        withExc == IF record.exc_info # <<>>
                   THEN Update(withId, [exception |->
                            [type |-> record.exc_info[1].type,
                             message |-> record.exc_info[1].message,
                             traceback |-> record.exc_info[1].traceback]])
                   ELSE withId
    IN IF record.extra_fields # <<>>
       THEN Update(withExc, record.extra_fields[1]) ELSE withExc

\* format raises: exc_info is (None, None, None), or json.dumps rejects a value
FormatRaises(ctx, record) ==
    \/ record.exc_info # <<>> /\ record.exc_info[1].type = None
    \/ ~JsonSerialisable(log_data(ctx, record))

\* StreamHandler(sys.stdout).emit: a formatting error is handed to handleError
\* (which reports on stderr) and the record is not written
emit(ctx, record) ==
    IF FormatRaises(ctx, record) THEN <<>>
    ELSE <<[stream |-> "log", data |-> log_data(ctx, record)]>>

\* Logger.log on the logger setup_logger configured: level check, then the handler
LoggerLog(ctx, levelname, msg, exc_info, extra_fields, site) ==
    IF LevelNo(levelname) < LevelNo(loggerLevel) THEN <<>>
    ELSE emit(ctx, [levelname |-> levelname, name |-> "geo-analytics-api", msg |-> msg,
                    exc_info |-> exc_info, extra_fields |-> extra_fields,
                    module |-> site.module, funcName |-> site.function,
                    lineno |-> site.line])

\* the call site's extra_fields merged over the adapter's context
process_call_site_last(extra, extra_fields) ==
    <<Update(extra, IF extra_fields = <<>> THEN EmptyDict ELSE extra_fields[1])>>

\* LoggerAdapter.process: the adapter's context is merged over extra_fields
process(extra, extra_fields) ==
    <<Update(IF extra_fields = <<>> THEN EmptyDict ELSE extra_fields[1], extra)>>

\* get_logger(**extra_context).<level>(msg, extra={'extra_fields': ...}, exc_info=...)
AdapterLog(ctx, extra_context, levelname, msg, exc_info, extra_fields, site) ==
    LoggerLog(ctx, levelname, msg, exc_info, process(extra_context, extra_fields), site)

-----------------------------------------------------------------------------
(* Error response builder and exception handlers *)

build_error_response(error_id, status_code, error_code, message, details, include_traceback, traceback_str) ==
    LET error == [id |-> error_id,
                  timestamp |-> isoformat(now),
                  status_code |-> status_code,
                  error_code |-> error_code,
                  message |-> message]
        withDetails == IF DictTruthy(details)
                       THEN Update(error, [details |-> details[1]]) ELSE error
    IN [error |-> IF include_traceback /\ Truthy(traceback_str)
                  THEN Update(withDetails, [traceback |-> traceback_str])
                  ELSE withDetails]

\* JSONResponse(...) renders its content with json.dumps when it is constructed
JSONResponseRaises(content) ==
    /\ "details" \in DOMAIN content.error
    /\ "validation_errors" \notin DOMAIN content.error.details
    /\ ~DictSerialisable(content.error.details)

JSONResponse(status_code, content) == [status_code |-> status_code, content |-> content]

UuidPool == {"uuid-" \o ToString(n) : n \in 1..MaxRuns}

\* the values str(uuid.uuid4()) may return: any value it has not returned before
uuid4 == UuidPool \ issued

\* an id made once, when the module is loaded, and used for every failure
error_id_made_once(exc) == {"uuid-1"}

\* error_id = str(uuid.uuid4()), the first statement of every handler
new_error_id(exc) == uuid4

\* details that carry the exception's text to the caller
unclassified_details_with_text(error_id, exc) ==
    [error_id |-> error_id, exception_message |-> exc.text]

\* details={"error_id": error_id} of the unclassified-failure response
unclassified_details(error_id, exc) == [error_id |-> error_id]

EnvValues == {None, "True", "1"}

getenv(value, default) == IF value = None THEN default ELSE value

\* the value compared as it is, without .lower()
lower_forgotten(s) == s

lower(s) == IF s = "True" THEN "true" ELSE s

url(p) == "http://api/api/regions/" \o ToString(p)

\* sys.exc_info() inside the except block that called the handler
exc_info_of(exc, text) ==
    <<[type |-> exc.cls, message |-> text,
       traceback |-> "Traceback (most recent call last): " \o exc.cls]>>

\* traceback.format_exc(): never empty, never raises
format_exc(exc) == "Traceback (most recent call last): " \o exc.cls

\* a response body without what identifies the occurrence: id, timestamp, details.error_id
Shape(content) ==
    [k \in DOMAIN content.error \ {"id", "timestamp"} |->
        IF k = "details"
        THEN [d \in DOMAIN content.error.details \ {"error_id"} |-> content.error.details[d]]
        ELSE content.error[k]]

\* the outcome of a handling put before what the handler wrote
outcome_first(lines, outcome) ==
    <<outcome>> \o [i \in 1..Len(lines) |-> lines[i].stream]

\* what a handler did, in the order of its statements: the lines its logging step
\* wrote, then its outcome (the return of the response or the exception leaving it)
events(lines, outcome) ==
    [i \in 1..Len(lines) |-> lines[i].stream] \o <<outcome>>

\* the handler returned `response`
Return(p, f, handler, error_id, include_traceback, response) ==
    /\ last' = <<[req |-> p, raised |-> f, handler |-> handler, error_id |-> error_id,
                  include_traceback |-> include_traceback,
                  outcome |-> "returned", events |-> events(stdout', "returned"),
                  response |-> response]>>
    /\ sent' = Append(sent,
                  [id |-> response.content.error.id,
                   plain |-> IF handler = "general_exception_handler" /\ ~include_traceback
                             THEN <<Shape(response.content)>> ELSE <<>>])

\* an exception left the handler: no response
Raise(p, f, handler, error_id) ==
    /\ last' = <<[req |-> p, raised |-> f, handler |-> handler, error_id |-> error_id,
                  outcome |-> "raised", events |-> events(stdout', "raised")]>>
    /\ sent' = sent

custom_exception_handler(p) ==
    /\ Cardinality(issued) < MaxRuns
    /\ \E f \in Failures : \E error_id \in new_error_id(f.exc) : LET exc == f.exc IN
        /\ Dispatch(exc) = "custom_exception_handler"
        /\ issued' = issued \cup {error_id}
        /\ stdout' =
             IF importable
             THEN AdapterLog(p, EmptyDict, "ERROR", "API Error: " \o exc.error_code,
                      exc_info_of(exc, exc.message),
                      <<[error_id |-> error_id,
                         error_code |-> exc.error_code,
                         message |-> exc.message,
                         details |-> exc.details,
                         path |-> url(p),
                         method |-> "GET"]>>,
                      [module |-> "error_handler",
                       function |-> "custom_exception_handler", line |-> 126])
             ELSE <<>>
        /\ LET content == build_error_response(error_id, exc.status_code, exc.error_code,
                              exc.message, <<exc.details>>, FALSE, None)
           IN IF JSONResponseRaises(content)
              THEN Raise(p, f, "custom_exception_handler", error_id)
              ELSE Return(p, f, "custom_exception_handler", error_id, FALSE,
                          JSONResponse(exc.status_code, content))
    /\ now' = now + 1
    /\ UNCHANGED <<DEBUG, importable, loggerLevel, slot, call, scope, scopeLog, caught>>

validation_exception_handler(p) ==
    /\ Cardinality(issued) < MaxRuns
    /\ \E f \in Failures : \E error_id \in new_error_id(f.exc) : LET exc == f.exc IN
        /\ Dispatch(exc) = "validation_exception_handler"
        /\ issued' = issued \cup {error_id}
        /\ stdout' = <<>>
        /\ Return(p, f, "validation_exception_handler", error_id, FALSE,
               JSONResponse(HTTP_422_UNPROCESSABLE_ENTITY,
                   build_error_response(error_id, HTTP_422_UNPROCESSABLE_ENTITY,
                       "VALIDATION_ERROR", "Request validation failed",
                       <<[validation_errors |-> exc.errors]>>, FALSE, None)))
    /\ now' = now + 1
    /\ UNCHANGED <<DEBUG, importable, loggerLevel, slot, call, scope, scopeLog, caught>>

http_exception_handler(p) ==
    /\ Cardinality(issued) < MaxRuns
    /\ \E f \in Failures : \E error_id \in new_error_id(f.exc) : LET exc == f.exc IN
        /\ Dispatch(exc) = "http_exception_handler"
        /\ issued' = issued \cup {error_id}
        /\ stdout' = <<>>
        /\ Return(p, f, "http_exception_handler", error_id, FALSE,
               JSONResponse(exc.status_code,
                   build_error_response(error_id, exc.status_code, "HTTP_ERROR",
                       exc.detail, <<>>, FALSE, None)))
    /\ now' = now + 1
    /\ UNCHANGED <<DEBUG, importable, loggerLevel, slot, call, scope, scopeLog, caught>>

GenericMessage == "An unexpected error occurred. Please contact support with the error ID."

general_exception_handler(p) ==
    /\ Cardinality(issued) < MaxRuns
    /\ \E f \in Failures : \E error_id \in new_error_id(f.exc) : LET exc == f.exc IN
        /\ Dispatch(exc) = "general_exception_handler"
        /\ issued' = issued \cup {error_id}
        /\ LET traceback_str == format_exc(exc)
               include_traceback == lower(getenv(DEBUG, "false")) = "true"
           IN IF exc.str_raises
              THEN \* str(exc) raises inside the try (or in the fallback's f-string):
                   \* not an ImportError, so it leaves the handler
                   /\ stdout' = <<>>
                   /\ Raise(p, f, "general_exception_handler", error_id)
              ELSE /\ stdout' =
                        IF importable
                        THEN AdapterLog(p, EmptyDict, "CRITICAL",
                                 "Unhandled exception: " \o exc.cls,
                                 exc_info_of(exc, exc.text),
                                 <<[error_id |-> error_id,
                                    exception_type |-> exc.cls,
                                    exception_message |-> exc.text,
                                    path |-> url(p),
                                    method |-> "GET"]>>,
                                 [module |-> "error_handler",
                                  function |-> "general_exception_handler", line |-> 207])
                        ELSE <<[stream |-> "print",
                                text |-> "CRITICAL ERROR [" \o error_id \o "]: "
                                         \o exc.text \o "\n" \o traceback_str]>>
                   /\ Return(p, f, "general_exception_handler", error_id, include_traceback,
                          JSONResponse(HTTP_500_INTERNAL_SERVER_ERROR,
                              build_error_response(error_id, HTTP_500_INTERNAL_SERVER_ERROR,
                                  "INTERNAL_SERVER_ERROR", GenericMessage,
                                  <<unclassified_details(error_id, exc)>>, include_traceback,
                                  IF include_traceback THEN traceback_str ELSE None)))
    /\ now' = now + 1
    /\ UNCHANGED <<DEBUG, importable, loggerLevel, slot, call, scope, scopeLog, caught>>

\* the clock advances
Tick ==
    /\ now < MaxTime
    /\ now' = now + 1
    /\ UNCHANGED <<last, sent, issued, stdout, DEBUG, importable, loggerLevel, slot,
                   call, scope, scopeLog, caught>>

\* the process environment's DEBUG variable is set or unset
SetDebug ==
    /\ \E v \in EnvValues \ {DEBUG} : DEBUG' = v
    /\ UNCHANGED <<last, sent, issued, now, stdout, importable, loggerLevel, slot,
                   call, scope, scopeLog, caught>>

NoScope == [pc |-> "unused"]

InitCommon ==
    /\ last = <<>>
    /\ sent = <<>>
    /\ issued = {}
    /\ stdout = <<>>
    /\ now = 0
    /\ DEBUG = None
    /\ loggerLevel = "INFO"
    /\ slot = [p \in Req |-> None]
    /\ call = <<>>
    /\ scope = NoScope
    /\ scopeLog = <<>>
    /\ caught = <<>>

Init == InitCommon /\ importable \in BOOLEAN

Next ==
    \/ \E p \in Req : custom_exception_handler(p)
    \/ \E p \in Req : validation_exception_handler(p)
    \/ \E p \in Req : http_exception_handler(p)
    \/ \E p \in Req : general_exception_handler(p)
    \/ SetDebug

Spec == Init /\ [][Next]_vars

-----------------------------------------------------------------------------
(* Claims about the handlers *)

Handled == last # <<>>
Returned == last # <<>> /\ last[1].outcome = "returned"
General == last[1].handler = "general_exception_handler"
LastError == last[1].response.content.error

Variants ==
    [DatasetNotFoundException |-> <<404, "DATASET_NOT_FOUND">>,
     InvalidDataFormatException |-> <<400, "INVALID_DATA_FORMAT">>,
     AnalyticsProcessingException |-> <<500, "ANALYTICS_PROCESSING_ERROR">>,
     RateLimitExceededException |-> <<429, "RATE_LIMIT_EXCEEDED">>]

Contains(details, passed) ==
    \A k \in DOMAIN passed : k \in DOMAIN details /\ details[k] = passed[k]

\* C1: the status of every response, and its body's status_code and error_code, are
\* fixed by the failure's category: a domain error's own status_code and error_code
\* (the table's for the four variants, with every constructor argument passed in
\* details under its field name), 422/VALIDATION_ERROR with the field errors as
\* details.validation_errors, the transport failure's own status with HTTP_ERROR,
\* and 500/INTERNAL_SERVER_ERROR for anything else.
C1_StatusAndCodeByCategory ==
    Returned =>
        LET r == last[1]
            exc == r.raised.exc
            resp == r.response
            err == resp.content.error
        IN /\ resp.status_code = err.status_code
           /\ CASE r.handler = "custom_exception_handler" ->
                     /\ err.status_code = exc.status_code
                     /\ err.error_code = exc.error_code
                     /\ exc.cls \in DOMAIN Variants =>
                           /\ <<err.status_code, err.error_code>> = Variants[exc.cls]
                           /\ "details" \in DOMAIN err
                           /\ Contains(err.details, r.raised.args)
                           /\ Contains(err.details, r.raised.kwargs)
                [] r.handler = "validation_exception_handler" ->
                     /\ err.status_code = 422
                     /\ err.error_code = "VALIDATION_ERROR"
                     /\ "details" \in DOMAIN err
                     /\ err.details.validation_errors = exc.errors
                [] r.handler = "http_exception_handler" ->
                     /\ err.status_code = exc.status_code
                     /\ err.error_code = "HTTP_ERROR"
                [] r.handler = "general_exception_handler" ->
                     /\ err.status_code = 500
                     /\ err.error_code = "INTERNAL_SERVER_ERROR"

\* the response body of the failure handled last can be serialised
BodySerialisable ==
    "details" \in DOMAIN last[1].raised.exc => DictSerialisable(last[1].raised.exc.details)

\* C2: handling a failure always ends with a response being returned, whatever
\* happens in the logging step, and an unclassified failure leaves a critical log
\* record or the fallback diagnostic line on standard output.  (Taken over the
\* failures whose response body can be serialised, so that only the logging step
\* can be what goes wrong.)
C2_AlwaysRendered ==
    (Handled /\ BodySerialisable) =>
        /\ last[1].outcome = "returned"
        /\ General =>
              \E i \in DOMAIN stdout :
                  \/ stdout[i].stream = "print"
                  \/ stdout[i].stream = "log" /\ stdout[i].data.level = "CRITICAL"

\* C3: every response carries the error id its handler generated for that
\* occurrence, and no two responses carry the same id.
C3_FreshErrorIds ==
    /\ \A i, j \in DOMAIN sent : i # j => sent[i].id # sent[j].id
    /\ Returned =>
          /\ LastError.id = last[1].error_id
          /\ sent[Len(sent)].id = last[1].error_id
          /\ \A i \in 1..(Len(sent) - 1) : sent[i].id # last[1].error_id

C3_Witness == Returned /\ Len(sent) >= 2

\* the debug flag: the DEBUG environment variable spells "true" in some letter case
DebugEnabled == DEBUG \in {"true", "True", "TRUE"}

\* C4: a response body has a traceback key exactly when the failure is unclassified
\* and the debug flag is enabled as the handler runs.
C4_TracebackIffUnclassifiedDebug ==
    [][(last' # last /\ last'[1].outcome = "returned") =>
          (("traceback" \in DOMAIN last'[1].response.content.error)
              <=> (last'[1].handler = "general_exception_handler" /\ DebugEnabled))]_vars

C4_Witness == Returned /\ General /\ "traceback" \in DOMAIN LastError

\* C5: with debug disabled the response for an unclassified failure does not depend
\* on the exception: any two such bodies are identical but for id and timestamp
\* (and the id repeated in details.error_id), each HTTP 500 with the generic
\* message, no traceback, and details.error_id equal to error.id.
C5_GenericResponse ==
    /\ \A i, j \in DOMAIN sent :
          sent[i].plain # <<>> /\ sent[j].plain # <<>> => sent[i].plain = sent[j].plain
    /\ (Returned /\ General /\ ~last[1].include_traceback) =>
          /\ last[1].response.status_code = 500
          /\ LastError.status_code = 500
          /\ LastError.message = GenericMessage
          /\ "traceback" \notin DOMAIN LastError
          /\ DOMAIN LastError.details = {"error_id"}
          /\ LastError.details.error_id = LastError.id

C5_Witness ==
    /\ Returned /\ General /\ ~last[1].include_traceback
    /\ Len(sent) >= 2 /\ sent[1].plain # <<>>

-----------------------------------------------------------------------------
(* The logger used directly: correlation slot, configuration, log calls *)

RequestIds == {"", "r1", "r2"}

\* request_id_var.set(value) at request entry, in the request's own context
SetRequestId(p) ==
    /\ \E v \in RequestIds \ {slot[p]} : slot' = [slot EXCEPT ![p] = v]
    /\ call' = <<>>
    /\ stdout' = <<>>
    /\ UNCHANGED <<last, sent, issued, now, DEBUG, importable, loggerLevel,
                   scope, scopeLog, caught>>

\* request_id_var.set(None) at request exit
ClearRequestId(p) ==
    /\ slot[p] # None
    /\ slot' = [slot EXCEPT ![p] = None]
    /\ call' = <<>>
    /\ stdout' = <<>>
    /\ UNCHANGED <<last, sent, issued, now, DEBUG, importable, loggerLevel,
                   scope, scopeLog, caught>>

\* setup_logger(level=...): the logger's level is set, its handlers replaced by one
\* StreamHandler(sys.stdout) with a JSONFormatter
setup_logger ==
    /\ \E level \in LevelNames \ {loggerLevel} : loggerLevel' = level
    /\ call' = <<>>
    /\ stdout' = <<>>
    /\ UNCHANGED <<last, sent, issued, now, DEBUG, importable, slot,
                   scope, scopeLog, caught>>

Severities == {"DEBUG", "INFO", "ERROR"}

\* exc_info of a call: absent, an exception, or True with no exception being handled
ExcInfos ==
    {<<>>,
     <<[type |-> "ValueError", message |-> "boom",
        traceback |-> "Traceback (most recent call last): ValueError"]>>,
     <<[type |-> None, message |-> None, traceback |-> None]>>}

CallFields ==
    {<<>>, <<[user |-> "u1"]>>, <<[user |-> Obj]>>,
     <<[request_id |-> "other", message |-> "override"]>>}

CallSite == [module |-> "routes", function |-> "get_regions", line |-> 12]

\* logger.<severity>(msg, exc_info=..., extra={'extra_fields': ...}) on the configured logger
LogCall(p) ==
    /\ \E levelname \in Severities, exc_info \in ExcInfos, extra_fields \in CallFields :
        /\ call' = <<[ctx |-> p, via |-> "logger", levelname |-> levelname, msg |-> "msg",
                      exc_info |-> exc_info, extra |-> EmptyDict,
                      extra_fields |-> extra_fields]>>
        /\ stdout' = LoggerLog(p, levelname, "msg", exc_info, extra_fields, CallSite)
    /\ UNCHANGED <<last, sent, issued, now, DEBUG, importable, loggerLevel, slot,
                   scope, scopeLog, caught>>

BoundContexts == {EmptyDict, [user |-> "u2"], [user |-> "u2", message |-> "bound"]}

AdapterFields == {<<>>, <<[user |-> "u1"]>>, <<[user |-> "u1", trace |-> "t"]>>}

\* get_logger(**extra_context).info(msg, extra={'extra_fields': ...})
AdapterCall(p) ==
    /\ \E extra_context \in BoundContexts, extra_fields \in AdapterFields :
        /\ call' = <<[ctx |-> p, via |-> "adapter", levelname |-> "INFO", msg |-> "msg",
                      exc_info |-> <<>>, extra |-> extra_context,
                      extra_fields |-> extra_fields]>>
        /\ stdout' = AdapterLog(p, extra_context, "INFO", "msg", <<>>, extra_fields, CallSite)
    /\ UNCHANGED <<last, sent, issued, now, DEBUG, importable, loggerLevel, slot,
                   scope, scopeLog, caught>>

InitLog == InitCommon /\ importable = TRUE

NextLog ==
    \/ \E p \in Req : SetRequestId(p)
    \/ \E p \in Req : ClearRequestId(p)
    \/ setup_logger
    \/ \E p \in Req : LogCall(p)
    \/ \E p \in Req : AdapterCall(p)

SpecLog == InitLog /\ [][NextLog]_vars

-----------------------------------------------------------------------------
(* PerformanceLogger: a scope around an operation, on the default logger *)

Operations == {"load", "aggregate"}

\* the keyword arguments given to PerformanceLogger(logger, operation, **context)
ScopeContexts == {EmptyDict, [dataset |-> "d1"], [dataset |-> Obj]}

ScopeExceptions == {[cls |-> "ValueError", text |-> "boom"], [cls |-> "KeyError", text |-> "k"]}

EnterSite == [module |-> "logger", function |-> "__enter__", line |-> 124]
ExitSite == [module |-> "logger", function |-> "__exit__", line |-> 136]

\* round((time.time() - start_time) * 1000, 2)
duration_ms(start_time) == (now - start_time) * 1000

\* `with PerformanceLogger(logger, operation, **context):` is entered
PerformanceLogger_enter(p) ==
    /\ scope.pc \in {"unused", "exited"}
    /\ \E operation \in Operations, context \in ScopeContexts :
        /\ scope' = [pc |-> "entered", ctx |-> p, operation |-> operation,
                     context |-> context, start_time |-> now]
        /\ scopeLog' = LoggerLog(p, "INFO", "Starting: " \o operation, <<>>,
                                 <<context>>, EnterSite)
    /\ caught' = <<>>
    /\ UNCHANGED <<last, sent, issued, stdout, now, DEBUG, importable, loggerLevel,
                   slot, call>>

\* the body of the scope ends, normally (raised = <<>>) or by raising an exception:
\* __exit__ logs the terminal record and returns False, so the exception goes on
\* to the caller of the scope
PerformanceLogger_exit ==
    /\ scope.pc = "entered"
    /\ \E raised \in {<<>>} \cup {<<e>> : e \in ScopeExceptions} :
        LET fields == Update(scope.context,
                             [duration_ms |-> duration_ms(scope.start_time),
                              success |-> (raised = <<>>)])
        IN /\ scopeLog' = scopeLog \o
                 (IF raised # <<>>
                  THEN LoggerLog(scope.ctx, "ERROR", "Failed: " \o scope.operation,
                                 exc_info_of(raised[1], raised[1].text),
                                 <<fields>>, ExitSite)
                  ELSE LoggerLog(scope.ctx, "INFO", "Completed: " \o scope.operation,
                                 <<>>, <<fields>>, ExitSite))
           /\ scope' = [pc |-> "exited", ctx |-> scope.ctx, operation |-> scope.operation,
                        context |-> scope.context, start_time |-> scope.start_time,
                        raised |-> raised]
           /\ caught' = raised
    /\ UNCHANGED <<last, sent, issued, stdout, now, DEBUG, importable, loggerLevel,
                   slot, call>>

NextPerf ==
    \/ \E p \in Req : PerformanceLogger_enter(p)
    \/ PerformanceLogger_exit
    \/ Tick

SpecPerf == InitLog /\ [][NextPerf]_vars

-----------------------------------------------------------------------------
(* Claims about the logger: SpecLog *)

Called == call # <<>>
Emitted == call # <<>> /\ stdout # <<>>
Rec == stdout[1].data
Bound == call[1].extra
AtCall == IF call[1].extra_fields = <<>> THEN EmptyDict ELSE call[1].extra_fields[1]
Supplied == DOMAIN Bound \cup DOMAIN AtCall

\* C6: the correlation id in a record emitted while handling a request is the one
\* held by that request's own slot, never one that only another request holds, and
\* a step that sets or clears one request's slot leaves every other request's slot
\* as it was.
C6_SlotIsolated ==
    /\ [](Emitted /\ "request_id" \notin Supplied /\ "request_id" \in DOMAIN Rec
            => Rec.request_id = slot[call[1].ctx])
    /\ [][\A p \in Req : slot'[p] # slot[p] =>
              \A q \in Req \ {p} : slot'[q] = slot[q]]_vars

C6_Witness ==
    /\ Emitted
    /\ "request_id" \notin Supplied
    /\ "request_id" \in DOMAIN Rec
    /\ Rec.request_id = slot[call[1].ctx]
    /\ \E q \in Req \ {call[1].ctx} : slot[q] \notin {None, "", slot[call[1].ctx]}

DefaultFields == {"timestamp", "level", "logger", "message", "module", "function", "line"}

\* C9: a record emitted for a call through an adapter carries every bound context
\* field with the bound value, every call-site field the context does not name with
\* the call-site value, and no default field keeps its value where a merged field
\* has its name.
C9_AdapterContextWins ==
    Emitted /\ call[1].via = "adapter" =>
        /\ \A k \in DOMAIN Bound : k \in DOMAIN Rec /\ Rec[k] = Bound[k]
        /\ \A k \in DOMAIN AtCall \ DOMAIN Bound : k \in DOMAIN Rec /\ Rec[k] = AtCall[k]
        /\ DOMAIN Rec \ (DefaultFields \cup {"request_id"}) \subseteq Supplied

C9_Witness ==
    /\ Emitted
    /\ call[1].via = "adapter"
    /\ "user" \in DOMAIN Bound \cap DOMAIN AtCall
    /\ Bound.user # AtCall.user
    /\ Rec.user = Bound.user
    /\ "trace" \in DOMAIN Rec
    /\ "message" \in DOMAIN Bound
    /\ Rec.message = Bound.message
    /\ Rec.message # call[1].msg

\* C10: every call on the configured logger writes exactly one record, an object
\* with at least timestamp, level, logger and message, and with an exception block
\* of type, message and traceback when exception info is supplied.  (Taken over the
\* calls whose severity the logger's level admits.)
C10_OneRecordPerCall ==
    Called /\ call[1].via = "logger"
           /\ LevelNo(call[1].levelname) >= LevelNo(loggerLevel) =>
        /\ Len(stdout) = 1
        /\ {"timestamp", "level", "logger", "message"} \subseteq DOMAIN Rec
        /\ call[1].exc_info # <<>> =>
              /\ "exception" \in DOMAIN Rec
              /\ DOMAIN Rec.exception = {"type", "message", "traceback"}

Entered == scope.pc \in {"entered", "exited"}
Exited == scope.pc = "exited"

\* C8: a scope that has been entered has written exactly one informational
\* 'starting' record; once it has exited it has written exactly one more record
\* after it, a 'completed' informational record with success true and a duration
\* when the operation returned, or an error record with success false, a duration
\* and the exception block when it raised, and the caller of the scope then gets
\* the exception the operation raised.
C8_ScopeRecords ==
    /\ Entered =>
        /\ Len(scopeLog) >= 1
        /\ scopeLog[1].data.level = "INFO"
        /\ scopeLog[1].data.message = "Starting: " \o scope.operation
    /\ scope.pc = "entered" => Len(scopeLog) = 1
    /\ Exited =>
        /\ Len(scopeLog) = 2
        /\ "duration_ms" \in DOMAIN scopeLog[2].data
        /\ IF scope.raised = <<>>
           THEN /\ scopeLog[2].data.level = "INFO"
                /\ scopeLog[2].data.message = "Completed: " \o scope.operation
                /\ scopeLog[2].data.success = TRUE
                /\ caught = <<>>
           ELSE /\ scopeLog[2].data.level = "ERROR"
                /\ scopeLog[2].data.success = FALSE
                /\ "exception" \in DOMAIN scopeLog[2].data
                /\ caught = scope.raised

-----------------------------------------------------------------------------
(* Claims about logging within a handling: Spec *)

Logged == {i \in 1..Len(stdout) : stdout[i].stream = "log"}

Severity ==
    [custom_exception_handler |-> "ERROR", general_exception_handler |-> "CRITICAL"]

LoggedBeforeReturn ==
    \A i, j \in 1..Len(last[1].events) :
        last[1].events[i] = "log" /\ last[1].events[j] = "returned" => i < j

====
